---- MODULE Spec2Model ----
(***************************************************************************)
(* The transcription service of sa4hnd/tiktok-transcript: the Express      *)
(* handler of POST /transcribe with its rate limiter, the expiring cache,  *)
(* the resolve / submit / poll orchestration of getTranscription, the      *)
(* deadline race of getTranscriptionWithTimeout and the hourly sweep.      *)
(*                                                                         *)
(* Two builds of the server are modelled: src/src/api.js ("api": deadline  *)
(* race, 10 poll attempts, back-off capped at 3000 ms) and                 *)
(* src/unnamed/part_001 ("server": no deadline, 15 attempts, cap 5000 ms). *)
(*                                                                         *)
(* JavaScript runs one macrotask at a time and drains the microtask queue  *)
(* before the next one, so an action is one macrotask: everything the code *)
(* does from an event (a request, a network answer, a timer) up to the     *)
(* next await of a network call or of a timer.                             *)
(***************************************************************************)
EXTENDS Integers, Sequences, FiniteSets, TLC

---------------------------------------------------------------------------
(* Program constants (times in milliseconds).                              *)
CACHE_DURATION == 24 * 60 * 60 * 1000
RATE_LIMIT_WINDOW == 60 * 1000
MAX_REQUESTS == 30
TIMEOUT_DURATION == 55000
SWEEP_INTERVAL == 60 * 60 * 1000
InitialWaitTime == 1000

Variants == {"api", "server"}
maxAttempts(v) == IF v = "api" THEN 10 ELSE 15
MaxWaitTime(v) == IF v = "api" THEN 3000 ELSE 5000

---------------------------------------------------------------------------
(* Bounds of the model.                                                    *)
MaxReq == 2         \* requests that hold a pending call or timer at once
MaxBurst == 1       \* Spec: requests a client sends within one window
MaxOther == 1       \* SpecRL: requests of a client other than client 1

Clients == {1, 2}   \* client identities (req.ip)
Slots == 1..MaxReq

(* What req.body.url can be: absent, the empty string, or a URL.           *)
NoUrl == "<absent>"
Urls == {"u1", "u2"}
Bodies == {NoUrl, ""} \cup Urls
Texts == {"t1", "t2"}
CacheKeys == Bodies \ {NoUrl}   \* a Map takes any string as a key

NoTimer == -1
NoEntry == [transcription |-> "<none>", timestamp |-> -1]
NoResp == [status |-> 0]
None == "<none>"

VARIABLES
    variant,      \* which build runs
    now,          \* Date.now()
    cache,        \* const cache = new Map(): url -> {transcription, timestamp}
    RATE_LIMIT,   \* const RATE_LIMIT = new Map(): ip -> [timestamps]
    nextSweep,    \* when the setInterval callback of the sweep is next due
    req           \* the requests in flight and their last responses

vars == <<variant, now, cache, RATE_LIMIT, nextSweep, req>>


---------------------------------------------------------------------------
(* A request slot.  pc is where getTranscription of the request stands:    *)
(* "idle" (not called), awaiting "resolve" (client.process), "submit"      *)
(* (POST /transcript), "poll" (GET /transcript/id), "sleep" (the back-off  *)
(* timer), or "ended" (returned or threw).  settled is how its promise     *)
(* settled: <<"return", text>> or <<"throw">> \o message.  resp is the     *)
(* response sent.  The fields lookup .. provText record what happened, for *)
(* the properties: what the cache lookup found ("fresh", "stale" or        *)
(* "absent"), the calls made, the cache writes, the resolver's answer and  *)
(* the text of the completed poll.                                         *)
IdleReq ==
    [pc |-> "idle", ip |-> 0, url |-> NoUrl, recvAt |-> 0,
     deadline |-> NoTimer, sleepDue |-> NoTimer,
     attempts |-> 0, waitTime |-> 0, audioUrl |-> None,
     settled |-> <<>>, resp |-> NoResp,
     lookup |-> "none", nResolve |-> 0, nSubmit |-> 0, nPoll |-> 0, nSleep |-> 0,
     nWrite |-> 0, resolved |-> [type |-> None, hasSources |-> FALSE, sources |-> <<>>], provText |-> None]

Responded(r) == req[r].resp.status # 0

(* A slot can take a new request when nothing of its last one is pending.  *)
Quiescent(r) ==
    /\ req[r].pc \in {"idle", "ended"}
    /\ req[r].deadline = NoTimer
    /\ req[r].sleepDue = NoTimer

(* The slot a new request takes: the first one never used, or else the one *)
(* whose finished request is the oldest.                                   *)
Unused == {r \in Slots : req[r] = IdleReq}

FreeSlot ==
    LET Q == {r \in Slots : Quiescent(r)}
        S == IF Unused # {} THEN Unused
             ELSE {r \in Q : \A q \in Q : req[r].recvAt <= req[q].recvAt}
    IN  CHOOSE r \in S : \A q \in S : r <= q

Min(a, b) == IF a <= b THEN a ELSE b

---------------------------------------------------------------------------
(* The responses of the handler.                                           *)
TooManyRequests ==
    [status |-> 429, success |-> FALSE,
     error |-> <<"Too many requests. Please try again later.">>]
MissingUrlResponse ==
    [status |-> 400, success |-> FALSE,
     error |-> <<"Missing TikTok URL in request body">>]
SuccessResponse(text, isCached) ==
    [status |-> 200, success |-> TRUE, transcription |-> text, cached |-> isCached]

TimedOut == <<"Request timed out">>

(* The catch block of the handler: error.message picks the status.  An    *)
(* error message is the tuple of the parts the code concatenates.         *)
ErrorResponse(v, message) ==
    IF v = "api"
    THEN [status |-> IF message = TimedOut THEN 504 ELSE 500,
          success |-> FALSE,
          error |-> IF message = TimedOut
                    THEN <<"The request took too long to process. Please try again.">>
                    ELSE message]
    ELSE [status |-> 500, success |-> FALSE, error |-> message]

---------------------------------------------------------------------------
(* rateLimiter: the timestamps of ip still inside the window, and whether  *)
(* the request is turned away.                                             *)
(* Mutant: a timestamp exactly one window old still counts.                *)
InWindow_Inclusive(time) == now - time <= RATE_LIMIT_WINDOW

InWindow(time) == now - time < RATE_LIMIT_WINDOW

requests(ip) ==
    IF ip \in DOMAIN RATE_LIMIT THEN SelectSeq(RATE_LIMIT[ip], InWindow) ELSE <<>>

(* Mutant: the limit is tested with > instead of >=.                       *)
LimitReached_OneMore(ip) ==
    ip \in DOMAIN RATE_LIMIT /\ Len(requests(ip)) > MAX_REQUESTS

LimitReached(ip) == ip \in DOMAIN RATE_LIMIT /\ Len(requests(ip)) >= MAX_REQUESTS

(* RATE_LIMIT after an admitted request of ip.                             *)
Admit(ip) ==
    [c \in DOMAIN RATE_LIMIT \cup {ip} |->
        IF c = ip THEN Append(requests(ip), now) ELSE RATE_LIMIT[c]]

(* Mutant: an entry exactly CACHE_DURATION old still counts as fresh.      *)
IsFresh_Inclusive(u) ==
    cache[u] # NoEntry /\ now - cache[u].timestamp <= CACHE_DURATION

(* Mutant: the age test of the cache lookup is inverted.                   *)
IsFresh_Inverted(u) ==
    cache[u] # NoEntry /\ now - cache[u].timestamp > CACHE_DURATION

(* Mutant: an entry never expires.                                         *)
IsFresh_NoExpiry(u) == cache[u] # NoEntry

(* The cache lookup at the head of getTranscription.                       *)
has(u) == cache[u] # NoEntry
IsFresh(u) == has(u) /\ now - cache[u].timestamp < CACHE_DURATION

(* Mutant: the deadline timer is set a second too long.                    *)
DeadlineTimer_Late ==
    IF variant = "api" THEN now + TIMEOUT_DURATION + 1000 ELSE NoTimer

(* The deadline timer getTranscriptionWithTimeout sets; the server build   *)
(* calls getTranscription directly.                                        *)
DeadlineTimer == IF variant = "api" THEN now + TIMEOUT_DURATION ELSE NoTimer

---------------------------------------------------------------------------
(* POST /transcribe: rateLimiter, then the handler up to its first await.  *)
(* The four actions are the four ways through that code.                   *)

NewReq(ip, body) == [IdleReq EXCEPT !.ip = ip, !.url = body, !.recvAt = now]

(* Mutant: only an absent url counts as missing.                           *)
Falsy_OnlyAbsent(body) == body = NoUrl

(* !url                                                                    *)
Falsy(body) == body \in {NoUrl, ""}

(* Mutant: the timestamp is pushed and stored before the limit is tested.  *)
Rejected_Counted(ip, body) ==
    /\ \E r \in Slots : Quiescent(r)
    /\ LimitReached(ip)
    /\ RATE_LIMIT' = Admit(ip)
    /\ req' = [req EXCEPT ![FreeSlot] =
                  [NewReq(ip, body) EXCEPT !.resp = TooManyRequests]]
    /\ UNCHANGED <<variant, now, cache, nextSweep>>

(* rateLimiter answers 429 and does not call next().                       *)
Rejected(ip, body) ==
    /\ \E r \in Slots : Quiescent(r)
    /\ LimitReached(ip)
    /\ req' = [req EXCEPT ![FreeSlot] =
                  [NewReq(ip, body) EXCEPT !.resp = TooManyRequests]]
    /\ UNCHANGED <<variant, now, cache, RATE_LIMIT, nextSweep>>

(* if (!url) return res.status(400)                                        *)
MissingUrl(ip, body) ==
    /\ \E r \in Slots : Quiescent(r)
    /\ ~LimitReached(ip)
    /\ Falsy(body)
    /\ RATE_LIMIT' = Admit(ip)
    /\ req' = [req EXCEPT ![FreeSlot] =
                  [NewReq(ip, body) EXCEPT !.resp = MissingUrlResponse]]
    /\ UNCHANGED <<variant, now, cache, nextSweep>>

(* getTranscription returns the cached transcription before any await; the *)
(* race is won at once and the handler answers with cached: cache.has(url).*)
(* The deadline timer has been set and stays pending.                      *)
CacheHit(ip, body) ==
    /\ \E r \in Slots : Quiescent(r)
    /\ ~LimitReached(ip)
    /\ ~Falsy(body)
    /\ IsFresh(body)
    /\ RATE_LIMIT' = Admit(ip)
    /\ req' = [req EXCEPT ![FreeSlot] =
                  [NewReq(ip, body) EXCEPT
                      !.pc = "ended", !.lookup = "fresh",
                      !.settled = <<"return", cache[body].transcription>>,
                      !.deadline = DeadlineTimer,
                      !.resp = SuccessResponse(cache[body].transcription, has(body))]]
    /\ UNCHANGED <<variant, now, cache, nextSweep>>

(* No fresh entry: a stale one is deleted, client.process(url) is called   *)
(* and awaited; the deadline timer is set.                                 *)
StartFresh(ip, body) ==
    /\ \E r \in Slots : Quiescent(r)
    /\ ~LimitReached(ip)
    /\ ~Falsy(body)
    /\ ~IsFresh(body)
    /\ RATE_LIMIT' = Admit(ip)
    /\ cache' = [cache EXCEPT ![body] = NoEntry]
    /\ req' = [req EXCEPT ![FreeSlot] =
                  [NewReq(ip, body) EXCEPT
                      !.pc = "resolve", !.nResolve = 1,
                      !.lookup = IF has(body) THEN "stale" ELSE "absent",
                      !.deadline = DeadlineTimer]]
    /\ UNCHANGED <<variant, now, nextSweep>>

---------------------------------------------------------------------------
(* How getTranscription ends, and what the handler then does.  In the api  *)
(* build the handler awaits the race: a result that arrives after the      *)
(* deadline has already answered the request changes no response.          *)

(* return text: the handler answers 200 with cached: cache.has(url), read  *)
(* from the cache as the return leaves it.                                 *)
Returned(q, text, cacheAfter) ==
    [q EXCEPT !.pc = "ended", !.settled = <<"return", text>>,
              !.resp = IF q.resp.status # 0 THEN q.resp
                       ELSE SuccessResponse(text, cacheAfter[q.url] # NoEntry)]

(* throw new Error(message): the catch block of the handler answers.       *)
Threw(q, message) ==
    [q EXCEPT !.pc = "ended", !.settled = <<"throw">> \o message,
              !.resp = IF q.resp.status # 0 THEN q.resp
                       ELSE ErrorResponse(variant, message)]

---------------------------------------------------------------------------
(* What the collaborators can answer.                                      *)

(* client.process(url): { type, data: { sources } }; sources is missing    *)
(* (hasSources is false) or a list of candidates, of which the code takes  *)
(* the first.                                                              *)
ResolverResults ==
    [type : {"video", "photo"}, hasSources : {TRUE}, sources : {<<>>, <<"a1", "a2">>}]
    \cup [type : {"video", "photo"}, hasSources : {FALSE}, sources : {<<>>}]
NotResolved == [type |-> None, hasSources |-> FALSE, sources |-> <<>>]

(* POST /transcript answers { id } or { error }.                           *)
SubmitResults == {[id |-> "job", error |-> None], [id |-> None, error |-> "rejected"]}

(* GET /transcript/id answers { status, text, error }.                     *)
PollResults ==
    [status : {"queued", "processing"}, text : {None}, error : {None}]
    \cup [status : {"completed"}, text : Texts, error : {None}]
    \cup [status : {"error"}, text : {None}, error : {"failed"}]

(* Messages of the errors a collaborator's call can throw.                 *)
NetErrors == {<<"fetch failed">>, TimedOut}

---------------------------------------------------------------------------
(* getTranscription after each await.                                      *)

(* !result.type === 'video' compares the boolean !result.type with a       *)
(* string: it is false whatever the type is.                               *)
NotVideo(result) == FALSE

(* Mutant: the length of the source list is not checked.                   *)
NoSource_NoLengthCheck(result) == NotVideo(result) \/ ~result.hasSources

NoSource(result) ==
    \/ NotVideo(result)
    \/ ~result.hasSources
    \/ Len(result.sources) = 0

(* Mutant: the wait time doubles.                                          *)
NextWaitTime_Double(w) == Min(w * 2, MaxWaitTime(variant))

(* waitTime = Math.min(waitTime * 1.5, cap).  waitTime * 1.5 is a whole    *)
(* number for 1000, 1500 and 2250; 3375 * 1.5 = 5062.5 and 3000 * 1.5 lie  *)
(* above either cap, so rounding down changes no result.                   *)
NextWaitTime(w) == Min((w * 3) \div 2, MaxWaitTime(variant))

(* The head of the poll loop: while (attempts < maxAttempts) the next      *)
(* status request goes out (the server build counts the attempt here);     *)
(* otherwise the loop is left and the budget error is thrown.              *)
BudgetError ==
    IF variant = "api"
    THEN <<"Transcription is taking longer than expected. Please try again.">>
    ELSE <<"Transcription timed out">>

(* Mutants: the loop gives up one attempt early; it allows one attempt too *)
(* many.                                                                   *)
LoopHead_OneLess(q) ==
    IF q.attempts + 1 < maxAttempts(variant)
    THEN [q EXCEPT !.pc = "poll", !.nPoll = @ + 1,
                   !.attempts = IF variant = "server" THEN @ + 1 ELSE @]
    ELSE Threw(q, BudgetError)

LoopHead_OneMore(q) ==
    IF q.attempts <= maxAttempts(variant)
    THEN [q EXCEPT !.pc = "poll", !.nPoll = @ + 1,
                   !.attempts = IF variant = "server" THEN @ + 1 ELSE @]
    ELSE Threw(q, BudgetError)

LoopHead(q) ==
    IF q.attempts < maxAttempts(variant)
    THEN [q EXCEPT !.pc = "poll", !.nPoll = @ + 1,
                   !.attempts = IF variant = "server" THEN @ + 1 ELSE @]
    ELSE Threw(q, BudgetError)

(* client.process(url) answered.  result.data.sources[0].url of a missing  *)
(* or empty list would throw a TypeError; the check before it leaves no    *)
(* such list through.                                                      *)
TypeError == <<"Cannot read properties of undefined">>

ResolveReturn(r, result) ==
    /\ req[r].pc = "resolve"
    /\ LET q == [req[r] EXCEPT !.resolved = result] IN
       req' = [req EXCEPT ![r] =
                  IF NoSource(result)
                  THEN Threw(q, <<"No video source found">>)
                  ELSE IF ~result.hasSources \/ result.sources = <<>>
                  THEN Threw(q, TypeError)
                  ELSE [q EXCEPT !.pc = "submit", !.nSubmit = @ + 1,
                                 !.audioUrl = result.sources[1]]]
    /\ UNCHANGED <<variant, now, cache, RATE_LIMIT, nextSweep>>

(* A collaborator's call threw: getTranscription rethrows.                 *)
CallThrew(r, message) ==
    /\ req[r].pc \in {"resolve", "submit", "poll"}
    /\ req' = [req EXCEPT ![r] = Threw(req[r], message)]
    /\ UNCHANGED <<variant, now, cache, RATE_LIMIT, nextSweep>>

(* POST /transcript answered.                                              *)
SubmitReturn(r, result) ==
    /\ req[r].pc = "submit"
    /\ req' = [req EXCEPT ![r] =
                  IF result.error # None
                  THEN Threw(req[r], <<"Failed to start transcription: ", result.error>>)
                  ELSE LoopHead([req[r] EXCEPT !.attempts = 0,
                                               !.waitTime = InitialWaitTime])]
    /\ UNCHANGED <<variant, now, cache, RATE_LIMIT, nextSweep>>

(* Mutant: a completed poll leaves an entry that is already there.         *)
PollCompleted_FirstWriterWins(r, result) ==
    /\ req[r].pc = "poll"
    /\ result.status = "completed"
    /\ cache' = IF has(req[r].url) THEN cache
                ELSE [cache EXCEPT ![req[r].url] =
                         [transcription |-> result.text, timestamp |-> now]]
    /\ req' = [req EXCEPT ![r] =
                  Returned([req[r] EXCEPT !.provText = result.text,
                                          !.nWrite = @ + 1],
                           result.text, cache')]
    /\ UNCHANGED <<variant, now, RATE_LIMIT, nextSweep>>

(* A status request answered.                                              *)
PollCompleted(r, result) ==
    /\ req[r].pc = "poll"
    /\ result.status = "completed"
    /\ cache' = [cache EXCEPT ![req[r].url] =
                    [transcription |-> result.text, timestamp |-> now]]
    /\ req' = [req EXCEPT ![r] =
                  Returned([req[r] EXCEPT !.provText = result.text,
                                          !.nWrite = @ + 1],
                           result.text, cache')]
    /\ UNCHANGED <<variant, now, RATE_LIMIT, nextSweep>>

(* Mutant: the error is thrown to the caller but the loop polls once more. *)
PollFailed_PollsAgain(r, result) ==
    /\ req[r].pc = "poll"
    /\ result.status = "error"
    /\ req' = [req EXCEPT ![r] =
                  [Threw(req[r], <<"Transcription failed: ", result.error>>)
                      EXCEPT !.pc = "poll", !.nPoll = @ + 1]]
    /\ UNCHANGED <<variant, now, cache, RATE_LIMIT, nextSweep>>

PollFailed(r, result) ==
    /\ req[r].pc = "poll"
    /\ result.status = "error"
    /\ req' = [req EXCEPT ![r] =
                  Threw(req[r], <<"Transcription failed: ", result.error>>)]
    /\ UNCHANGED <<variant, now, cache, RATE_LIMIT, nextSweep>>

(* Neither completed nor error: (the api build counts the attempt here and) *)
(* the back-off timer is set.                                              *)
PollPending(r, result) ==
    /\ req[r].pc = "poll"
    /\ result.status \notin {"completed", "error"}
    /\ req' = [req EXCEPT ![r] =
                  [req[r] EXCEPT !.pc = "sleep", !.nSleep = @ + 1,
                                 !.attempts = IF variant = "api" THEN @ + 1 ELSE @,
                                 !.sleepDue = now + req[r].waitTime]]
    /\ UNCHANGED <<variant, now, cache, RATE_LIMIT, nextSweep>>

(* The back-off timer fires: the wait time grows and the loop goes round.  *)
SleepFire(r) ==
    /\ req[r].pc = "sleep"
    /\ now >= req[r].sleepDue
    /\ req' = [req EXCEPT ![r] =
                  LoopHead([req[r] EXCEPT !.sleepDue = NoTimer,
                                          !.waitTime = NextWaitTime(@)])]
    /\ UNCHANGED <<variant, now, cache, RATE_LIMIT, nextSweep>>

(* Mutant: the deadline timer fires and rejects nothing.                   *)
DeadlineFire_Silent(r) ==
    /\ req[r].deadline # NoTimer
    /\ now >= req[r].deadline
    /\ req' = [req EXCEPT ![r] = [req[r] EXCEPT !.deadline = NoTimer]]
    /\ UNCHANGED <<variant, now, cache, RATE_LIMIT, nextSweep>>

(* The deadline timer fires: reject(new Error('Request timed out')).  It   *)
(* answers the request unless the race is already settled.                 *)
DeadlineFire(r) ==
    /\ req[r].deadline # NoTimer
    /\ now >= req[r].deadline
    /\ req' = [req EXCEPT ![r] =
                  [req[r] EXCEPT !.deadline = NoTimer,
                                 !.resp = IF req[r].resp.status # 0 THEN @
                                          ELSE ErrorResponse(variant, TimedOut)]]
    /\ UNCHANGED <<variant, now, cache, RATE_LIMIT, nextSweep>>

(* Mutant: the sweep takes every entry for expired.                        *)
Expired_Always(u) == has(u)

(* Mutant: the sweep also takes an entry that is CACHE_DURATION old.       *)
Expired_Inclusive(u) == has(u) /\ now - cache[u].timestamp >= CACHE_DURATION

(* The setInterval callback: entries older than CACHE_DURATION go.         *)
Expired(u) == has(u) /\ now - cache[u].timestamp > CACHE_DURATION

Sweep ==
    /\ now >= nextSweep
    /\ cache' = [u \in CacheKeys |-> IF Expired(u) THEN NoEntry ELSE cache[u]]
    /\ nextSweep' = nextSweep + SWEEP_INTERVAL
    /\ UNCHANGED <<variant, now, RATE_LIMIT, req>>

---------------------------------------------------------------------------
(* Time.  A timer fires when it is due: the clock moves to the next due    *)
(* timer at most, either straight to it or to the next multiple of one of  *)
(* the periods in D.                                                       *)
Dues ==
    ({req[r].deadline : r \in Slots} \cup {req[r].sleepDue : r \in Slots}
        \cup {nextSweep}) \ {NoTimer}

NextDue == CHOOSE t \in Dues : \A d \in Dues : t <= d

Tick(D, horizon) ==
    /\ \E t \in {((now \div d) + 1) * d : d \in D} \cup {NextDue} :
          /\ t > now
          /\ t <= NextDue
          /\ t <= horizon
          /\ now' = t
    /\ UNCHANGED <<variant, cache, RATE_LIMIT, nextSweep, req>>

---------------------------------------------------------------------------
Init ==
    /\ variant \in Variants
    /\ now = 0
    /\ cache = [u \in CacheKeys |-> NoEntry]
    /\ RATE_LIMIT = <<>>
    /\ nextSweep = SWEEP_INTERVAL
    /\ req = [r \in Slots |-> IdleReq]


(* Spec: the orchestration of the requests that miss the cache.  One       *)
(* client sends them one after the other (a request arrives when           *)
(* getTranscription of the last one has ended), MaxBurst of them at most   *)
(* within the rate limiter's window, until the longest poll loop (15       *)
(* attempts with their back-off sleeps, 63125 ms) has run out; no sweep is *)
(* due yet.  Every answer of the resolver and of the provider is possible, *)
(* at any time a timer lets the clock reach.  The requests that hit the    *)
(* cache are those of SpecCache.                                           *)
Horizon == 64000

InFlight == {r \in Slots : req[r].pc \notin {"idle", "ended"}}

(* Who may send a request now: a request arrives early enough for its      *)
(* deadline to fall within the horizon.                                    *)
Senders ==
    {ip \in {1} : /\ InFlight = {} /\ Unused # {}
                  /\ now + TIMEOUT_DURATION <= Horizon
                  /\ ip \in DOMAIN RATE_LIMIT => Len(RATE_LIMIT[ip]) < MaxBurst}

Next ==
    \/ \E ip \in Senders, body \in Bodies :
          MissingUrl(ip, body) \/ StartFresh(ip, body)
    \/ \E r \in Slots, result \in ResolverResults : ResolveReturn(r, result)
    \/ \E r \in Slots, result \in SubmitResults : SubmitReturn(r, result)
    \/ \E r \in Slots, result \in PollResults :
          PollCompleted(r, result) \/ PollFailed(r, result) \/ PollPending(r, result)
    \/ \E r \in Slots, message \in NetErrors : CallThrew(r, message)
    \/ \E r \in Slots : SleepFire(r) \/ DeadlineFire(r)
    \/ Tick({}, Horizon)

Spec == Init /\ [][Next]_vars


---------------------------------------------------------------------------
(* SpecLive: Spec with the scheduling of the event loop.  Time passes and  *)
(* a timer that is due runs: the clock and the timers are weakly fair.     *)
(* Nothing obliges the resolver or the provider to answer, so no fairness  *)
(* is assumed of their answers.  A request arrives early enough for its    *)
(* deadline to fall within the horizon.                                    *)
SendersLive == {ip \in Senders : now + TIMEOUT_DURATION <= Horizon}

NextLive ==
    \/ \E ip \in SendersLive, body \in Bodies :
          MissingUrl(ip, body) \/ StartFresh(ip, body)
    \/ \E r \in Slots, result \in ResolverResults : ResolveReturn(r, result)
    \/ \E r \in Slots, result \in SubmitResults : SubmitReturn(r, result)
    \/ \E r \in Slots, result \in PollResults :
          PollCompleted(r, result) \/ PollFailed(r, result) \/ PollPending(r, result)
    \/ \E r \in Slots, message \in NetErrors : CallThrew(r, message)
    \/ \E r \in Slots : SleepFire(r) \/ DeadlineFire(r)
    \/ Tick({}, Horizon)

SpecLive ==
    /\ Init /\ [][NextLive]_vars
    /\ WF_vars(Tick({}, Horizon))
    /\ \A r \in Slots : WF_vars(DeadlineFire(r)) /\ WF_vars(SleepFire(r))

---------------------------------------------------------------------------
(* SpecRL: the rate limiter under load, over one window.  Client 1 sends  *)
(* as many requests as it likes, every other client MaxOther requests.  A  *)
(* request that is admitted has no url and is over at once with the 400; a *)
(* request that is rejected has a url or none.  The clock moves in steps   *)
(* of half a window.                                                       *)
HorizonRL == RATE_LIMIT_WINDOW

Stored(ip) == IF ip \in DOMAIN RATE_LIMIT THEN RATE_LIMIT[ip] ELSE <<>>

SendersRL == {ip \in Clients : ip = 1 \/ Len(Stored(ip)) < MaxOther}

NextRL ==
    \/ \E ip \in SendersRL, body \in {NoUrl, "u1"} : Rejected(ip, body)
    \/ \E ip \in SendersRL : MissingUrl(ip, NoUrl)
    \/ Tick({RATE_LIMIT_WINDOW \div 2}, HorizonRL)

SpecRL == Init /\ [][NextRL]_vars

---------------------------------------------------------------------------
(* SpecRace: the rate limiter with requests in flight.  As SpecRL, and the *)
(* first requests may carry a url: such a request awaits the resolver      *)
(* while further requests of the same and of other clients arrive, and the *)
(* resolver's call fails at some time, or never returns.  Requests arrive  *)
(* when the window starts and when it ends; in between the clock stops at  *)
(* the deadlines.                                                          *)
SendersRace == {ip \in SendersRL : now % RATE_LIMIT_WINDOW = 0}

NextRace ==
    \/ \E ip \in SendersRace : Rejected(ip, NoUrl)
    \/ \E ip \in SendersRace : MissingUrl(ip, NoUrl)
    \/ \E ip \in SendersRace : Unused # {} /\ StartFresh(ip, "u1")
    \/ \E r \in Slots : CallThrew(r, <<"fetch failed">>)
    \/ \E r \in Slots : DeadlineFire(r)
    \/ Tick({HorizonRL}, HorizonRL)

SpecRace == Init /\ [][NextRace]_vars

---------------------------------------------------------------------------
(* SpecCache: the cache over its retention window.  One client sends       *)
(* MaxReq requests for "u1", one after the other; the resolver finds a     *)
(* source, the provider accepts the job and reports 'completed' on the     *)
(* first poll.  The clock moves from timer to                              *)
(* timer: the hourly sweeps and the deadlines of the requests, until the   *)
(* sweep of the 25th hour and a deadline after it.                         *)
HorizonCache == 25 * SWEEP_INTERVAL + TIMEOUT_DURATION

SendersCache == {ip \in {1} : InFlight = {} /\ Unused # {}}

NextCache ==
    \/ \E ip \in SendersCache : CacheHit(ip, "u1") \/ StartFresh(ip, "u1")
    \/ \E r \in Slots :
          ResolveReturn(r, [type |-> "video", hasSources |-> TRUE,
                            sources |-> <<"a1", "a2">>])
    \/ \E r \in Slots : SubmitReturn(r, [id |-> "job", error |-> None])
    \/ \E r \in Slots, text \in Texts :
          PollCompleted(r, [status |-> "completed", text |-> text, error |-> None])
    \/ \E r \in Slots : DeadlineFire(r)
    \/ Sweep
    \/ Tick({}, HorizonCache)

SpecCache == Init /\ [][NextCache]_vars

---------------------------------------------------------------------------
(* SpecConc: SpecCache with requests in flight together.  A request for    *)
(* "u1" arrives whether or not getTranscription of an earlier one has      *)
(* ended, MaxReq requests in all, and the answers of the resolver and of   *)
(* the provider to the requests in flight come in any order.  Requests     *)
(* arrive during the first hour or after 24 hours.                         *)
SendersConc ==
    {ip \in {1} : Unused # {} /\ (now < SWEEP_INTERVAL \/ now >= CACHE_DURATION)}

NextConc ==
    \/ \E ip \in SendersConc : CacheHit(ip, "u1") \/ StartFresh(ip, "u1")
    \/ \E r \in Slots :
          ResolveReturn(r, [type |-> "video", hasSources |-> TRUE,
                            sources |-> <<"a1", "a2">>])
    \/ \E r \in Slots : SubmitReturn(r, [id |-> "job", error |-> None])
    \/ \E r \in Slots, text \in Texts :
          PollCompleted(r, [status |-> "completed", text |-> text, error |-> None])
    \/ \E r \in Slots : DeadlineFire(r)
    \/ Sweep
    \/ Tick({}, HorizonCache)

SpecConc == Init /\ [][NextConc]_vars

---------------------------------------------------------------------------
(* SpecSweep: the hourly sweep beside requests in flight.  MaxReq requests *)
(* for either url arrive at time 0, together or one after the other; the   *)
(* resolver and the provider answer them at any time a timer lets the      *)
(* clock reach, so that the entries differ in age and a sweep runs while a *)
(* request stands at any of its awaits.  Every call succeeds.              *)
SendersSweep == {ip \in {1} : Unused # {} /\ now = 0}

NextSweeping ==
    \/ \E ip \in SendersSweep, u \in Urls : CacheHit(ip, u) \/ StartFresh(ip, u)
    \/ \E r \in Slots :
          ResolveReturn(r, [type |-> "video", hasSources |-> TRUE,
                            sources |-> <<"a1", "a2">>])
    \/ \E r \in Slots : SubmitReturn(r, [id |-> "job", error |-> None])
    \/ \E r \in Slots :
          PollCompleted(r, [status |-> "completed", text |-> "t1", error |-> None])
    \/ \E r \in Slots : DeadlineFire(r)
    \/ Sweep
    \/ Tick({}, HorizonCache)

SpecSweep == Init /\ [][NextSweeping]_vars

---------------------------------------------------------------------------
(* Properties.  They are stated on what a caller and the collaborators can *)
(* observe: the response of a request (req[r].resp), the calls made for it *)
(* (nResolve, nSubmit, nPoll), its timers, and the two maps.               *)

(* A step in which slot r takes a new request.                             *)
Arrives(r) == Quiescent(r) /\ req'[r] # req[r]

(* The cache holds an entry for u that is younger than 24 hours.           *)
YoungEntry(u) ==
    /\ cache[u].timestamp >= 0
    /\ now - cache[u].timestamp < 24 * 60 * 60 * 1000

NoCalls(q) == q.nResolve = 0 /\ q.nSubmit = 0 /\ q.nPoll = 0

(* The deadline of request r (55 s after it started) has been reached.     *)
DeadlineElapsed(r) == variant = "api" /\ now >= req[r].recvAt + 55000

TimeoutResponse(q) ==
    /\ q.resp.status = 504
    /\ q.resp.success = FALSE
    /\ q.resp.error = <<"The request took too long to process. Please try again.">>

Failure500(q, message) ==
    q.resp = [status |-> 500, success |-> FALSE, error |-> message]

(* The resolver answered request r with at least one source.               *)
GotSource(r) == req[r].resolved.hasSources /\ Len(req[r].resolved.sources) >= 1

(* The resolver answered request r with no source: list missing or empty.  *)
ZeroSources(r) ==
    /\ req[r].resolved.type # None
    /\ (~req[r].resolved.hasSources \/ Len(req[r].resolved.sources) = 0)

---------------------------------------------------------------------------
(* C1 (as claimed): a request that found no fresh cache entry, whose       *)
(* resolver returned a source and whose provider reported 'completed' is   *)
(* answered 200 with success=true, the provider's text and cached=false.   *)
(* Requests the deadline answered first are left aside here, so that the   *)
(* statement is the claim at its most favourable.                          *)
C1_FreshSuccessNotCached ==
    \A r \in Slots :
        (/\ req[r].lookup \in {"absent", "stale"}
         /\ req[r].nResolve = 1
         /\ GotSource(r)
         /\ req[r].provText # None
         /\ req[r].resp.status # 504)
        => req[r].resp = [status |-> 200, success |-> TRUE,
                          transcription |-> req[r].provText, cached |-> FALSE]

---------------------------------------------------------------------------
(* C2: a request for a url whose cache entry is younger than 24 h is       *)
(* answered 200 with success=true, the transcription of that entry and     *)
(* cached=true, in the step in which it arrives, with no call to the       *)
(* resolver or the provider and the cache left as it is.                   *)
C2_CachedRepeat ==
    [][\A r \in Slots :
          (/\ Arrives(r)
           /\ req'[r].resp.status # 429
           /\ req'[r].url \in Urls
           /\ YoungEntry(req'[r].url))
          => /\ req'[r].resp = [status |-> 200, success |-> TRUE,
                                transcription |-> cache[req'[r].url].transcription,
                                cached |-> TRUE]
             /\ NoCalls(req'[r])
             /\ cache' = cache]_vars

(* A request succeeded with the provider's text, and a later request for   *)
(* the same url was served that text from the cache.                       *)
C2_Witness ==
    \E r1, r2 \in Slots :
        /\ r1 # r2
        /\ req[r1].nWrite = 1 /\ req[r1].resp.status = 200
        /\ req[r2].url = req[r1].url /\ req[r2].recvAt >= req[r1].recvAt
        /\ req[r2].lookup = "fresh"
        /\ req[r2].resp.status = 200 /\ req[r2].resp.cached
        /\ req[r2].resp.transcription = req[r1].resp.transcription
        /\ NoCalls(req[r2])

---------------------------------------------------------------------------
(* C3: an admitted request without a url (absent or empty) is answered 400 *)
(* 'Missing TikTok URL in request body'; getTranscription is not called    *)
(* (no cache lookup, no timer, no call to a collaborator) and the cache is *)
(* left as it is.                                                          *)
C3_MissingUrl400 ==
    [][\A r \in Slots :
          (/\ Arrives(r)
           /\ req'[r].resp.status # 429
           /\ req'[r].url \in {NoUrl, ""})
          => /\ req'[r].resp = [status |-> 400, success |-> FALSE,
                                error |-> <<"Missing TikTok URL in request body">>]
             /\ req'[r].pc = "idle" /\ req'[r].lookup = "none"
             /\ req'[r].deadline = NoTimer
             /\ NoCalls(req'[r])
             /\ cache' = cache]_vars

(* A request whose url is the empty string has been answered 400.         *)
C3_Witness ==
    \E r \in Slots :
        /\ req[r].url = "" /\ req[r].resp.status = 400
        /\ req[r].ip \in DOMAIN RATE_LIMIT /\ req[r].pc = "idle"

---------------------------------------------------------------------------
(* The timestamps stored for a client, and how many of them are less than  *)
(* 60 seconds old.                                                         *)
Timestamps(ip) == IF ip \in DOMAIN RATE_LIMIT THEN RATE_LIMIT[ip] ELSE <<>>

Recent(ip) ==
    Cardinality({i \in 1..Len(Timestamps(ip)) : now - Timestamps(ip)[i] < 60000})

(* C4: a request of a client with fewer than 30 stored timestamps younger  *)
(* than 60 s is admitted, and its time is stored after those timestamps    *)
(* (so 30 requests within one window are all admitted, and a request that  *)
(* finds every stored timestamp at least 60 s old is admitted again); a    *)
(* request that finds 30 such timestamps is rejected.  There are never     *)
(* more than 30.                                                           *)
C4_RateLimiterSound ==
    [][\A r \in Slots :
          Arrives(r)
          => LET ip == req'[r].ip IN
             /\ Recent(ip) <= 30
             /\ Recent(ip) < 30
                => /\ req'[r].resp.status # 429
                   /\ ip \in DOMAIN RATE_LIMIT'
                   /\ Len(RATE_LIMIT'[ip]) = Recent(ip) + 1
                   /\ RATE_LIMIT'[ip][Recent(ip) + 1] = now
             /\ Recent(ip) = 30 => req'[r].resp.status = 429]_vars

(* Client 1 filled the window at one instant and was rejected 30 s later;  *)
(* another 30 s later every stored timestamp was exactly 60 s old and its  *)
(* request was admitted, alone in the stored sequence.                     *)
C4_Witness ==
    \E r1, r2 \in Slots :
        /\ req[r2].ip = 1 /\ req[r2].resp.status = 429
        /\ req[r1].ip = 1 /\ req[r1].resp.status = 400
        /\ req[r1].recvAt = req[r2].recvAt + 30000
        /\ req[r1].recvAt = now
        /\ RATE_LIMIT[1] = <<now>>

---------------------------------------------------------------------------
(* C5: a request of a client that has 30 stored timestamps younger than    *)
(* 60 s is answered 429 with success=false whatever its body is; the step  *)
(* changes neither RATE_LIMIT nor the cache nor another request, calls no  *)
(* collaborator and sets no timer.                                         *)
C5_RejectionFrame ==
    [][\A r \in Slots :
          (Arrives(r) /\ Recent(req'[r].ip) >= 30)
          => /\ req'[r].resp = [status |-> 429, success |-> FALSE,
                                error |-> <<"Too many requests. Please try again later.">>]
             /\ RATE_LIMIT' = RATE_LIMIT
             /\ cache' = cache
             /\ NoCalls(req'[r]) /\ req'[r].nWrite = 0
             /\ req'[r].pc = "idle" /\ req'[r].deadline = NoTimer
             /\ \A q \in Slots \ {r} : req'[q] = req[q]]_vars

(* A request without a url was answered 429, not 400, while another client *)
(* has a timestamp stored.                                                 *)
C5_Witness ==
    \E r \in Slots :
        /\ req[r].url = NoUrl /\ req[r].resp.status = 429
        /\ Len(Timestamps(req[r].ip)) = 30
        /\ \E ip \in DOMAIN RATE_LIMIT : ip # req[r].ip

---------------------------------------------------------------------------
(* C6: a lookup of a key whose entry was written at time t with transcript *)
(* T returns T when now - t < 24 h (the request is answered with T at      *)
(* once); when now - t >= 24 h it behaves as absent: the entry is dropped, *)
(* the resolver is called, and the caller is answered later, with the text *)
(* of the fresh transcription and never with T from the stale entry.       *)
C6_CacheRetention ==
    [][\A r \in Slots :
          /\ (/\ Arrives(r)
              /\ req'[r].resp.status \notin {400, 429}
              /\ cache[req'[r].url].timestamp >= 0)
             => LET u == req'[r].url
                    t == cache[u].timestamp
                    T == cache[u].transcription
                IN  /\ now - t < 24 * 60 * 60 * 1000
                       => /\ req'[r].resp.status = 200
                          /\ req'[r].resp.transcription = T
                          /\ NoCalls(req'[r])
                          /\ cache' = cache
                    /\ now - t >= 24 * 60 * 60 * 1000
                       => /\ req'[r].resp.status = 0
                          /\ req'[r].pc = "resolve" /\ req'[r].nResolve = 1
                          /\ cache'[u].timestamp < 0
          /\ (req'[r].lookup = "stale" /\ req'[r].resp.status = 200)
             => /\ req'[r].nPoll >= 1
                /\ req'[r].resp.transcription = req'[r].provText]_vars

(* A request found an entry 24 h old or older that no sweep had removed,   *)
(* and was answered with a fresh transcription whose text differs from the *)
(* stale one.                                                              *)
C6_Witness ==
    \E r1, r2 \in Slots :
        /\ req[r1].url = req[r2].url /\ req[r1].nWrite = 1
        /\ req[r2].recvAt >= req[r1].recvAt + 24 * 60 * 60 * 1000
        /\ req[r2].lookup = "stale"
        /\ req[r2].resp.status = 200 /\ req[r2].nWrite = 1
        /\ req[r2].resp.transcription # req[r1].resp.transcription

---------------------------------------------------------------------------
NoVideoSource == <<"No video source found">>

(* C7 (as claimed): when the resolver returns no source, the request ends  *)
(* with the 500 response 'No video source found', without a submit, a poll *)
(* or a cache write.                                                       *)
C7_ZeroSources500 ==
    \A r \in Slots :
        ZeroSources(r)
        => /\ Failure500(req[r], NoVideoSource)
           /\ req[r].nSubmit = 0 /\ req[r].nPoll = 0 /\ req[r].nWrite = 0

(* C7 (amended): when the resolver returns no source, getTranscription     *)
(* throws 'No video source found' without a submit, a poll or a cache      *)
(* write, and the response is the 500 with that message, unless the 55 s   *)
(* deadline of the api build was reached before the resolver answered: the *)
(* caller then already has the 504.                                        *)
C7_ZeroSourcesFails ==
    \A r \in Slots :
        ZeroSources(r)
        => /\ req[r].pc = "ended"
           /\ req[r].settled = <<"throw">> \o NoVideoSource
           /\ req[r].nSubmit = 0 /\ req[r].nPoll = 0 /\ req[r].nWrite = 0
           /\ \/ Failure500(req[r], NoVideoSource)
              \/ TimeoutResponse(req[r]) /\ DeadlineElapsed(r)

(* The resolver answered with an empty list before the deadline: 500.      *)
C7_Witness ==
    \E r \in Slots :
        /\ req[r].resolved.hasSources /\ req[r].resolved.sources = <<>>
        /\ Failure500(req[r], NoVideoSource)
        /\ ~DeadlineElapsed(r)

---------------------------------------------------------------------------
(* C8 (as claimed): when the resolver returns a kind other than 'video',   *)
(* getTranscription throws the resolution error: nothing is submitted to   *)
(* the provider and nothing is cached.                                     *)
C8_NonVideoRejected ==
    \A r \in Slots :
        req[r].resolved.type \notin {None, "video"}
        => /\ req[r].settled = <<"throw">> \o NoVideoSource
           /\ req[r].nSubmit = 0 /\ req[r].nPoll = 0 /\ req[r].nWrite = 0

---------------------------------------------------------------------------
(* The attempt budget of the build, as the claims give it.                 *)
Budget == IF variant = "api" THEN 10 ELSE 15

BudgetMessage ==
    IF variant = "api"
    THEN <<"Transcription is taking longer than expected. Please try again.">>
    ELSE <<"Transcription timed out">>

(* C9: every 'queued' or 'processing' answer is followed by one back-off   *)
(* sleep and, while fewer than maxAttempts polls were made, by another     *)
(* poll; when a poll reports 'completed' after N such answers, N + 1 polls *)
(* and N sleeps were made, N < maxAttempts, getTranscription returns the   *)
(* text, and the caller gets it unless the deadline was reached first.     *)
C9_CompletedAfterNPolls ==
    \A r \in Slots :
        /\ req[r].provText # None
           => /\ req[r].nPoll = req[r].nSleep + 1
              /\ req[r].nSleep < Budget
              /\ req[r].settled = <<"return", req[r].provText>>
              /\ \/ /\ req[r].resp.status = 200
                    /\ req[r].resp.transcription = req[r].provText
                 \/ TimeoutResponse(req[r]) /\ DeadlineElapsed(r)
        /\ req[r].pc = "poll" => req[r].nPoll = req[r].nSleep + 1
        /\ req[r].pc = "sleep" => req[r].nPoll = req[r].nSleep
        /\ (req[r].nSleep < Budget /\ req[r].settled # <<>>)
           => req[r].settled # <<"throw">> \o BudgetMessage

(* The last poll the budget allows reported 'completed' and the caller got *)
(* the text.                                                               *)
C9_Witness ==
    \E r \in Slots :
        /\ req[r].provText # None
        /\ req[r].nPoll = Budget /\ req[r].nSleep = Budget - 1
        /\ req[r].resp.status = 200 /\ req[r].resp.transcription = req[r].provText

---------------------------------------------------------------------------
(* The provider gave maxAttempts non-terminal answers to request r and the *)
(* last back-off sleep is over.                                            *)
BudgetSpent(r) == req[r].nSleep = Budget /\ req[r].pc # "sleep"

(* C10 (as claimed): with a provider that never reports a terminal status, *)
(* the loop makes exactly maxAttempts polls, then the request fails with   *)
(* the poll-budget error as a 500, and nothing is cached.                  *)
C10_BudgetExceeded500 ==
    \A r \in Slots :
        /\ req[r].nPoll <= Budget
        /\ BudgetSpent(r)
           => /\ req[r].nPoll = Budget /\ req[r].nWrite = 0
              /\ Failure500(req[r], BudgetMessage)

(* C10 (amended): the loop makes at most maxAttempts polls; after          *)
(* maxAttempts non-terminal answers it has made exactly maxAttempts polls, *)
(* getTranscription throws the poll-budget error and nothing is cached;    *)
(* the response is the 500 with that error unless the 55 s deadline of the *)
(* api build was reached first, in which case the caller has the 504.      *)
C10_BudgetExceeded ==
    \A r \in Slots :
        /\ req[r].nPoll <= Budget
        /\ BudgetSpent(r)
           => /\ req[r].pc = "ended"
              /\ req[r].nPoll = Budget /\ req[r].nWrite = 0
              /\ req[r].settled = <<"throw">> \o BudgetMessage
              /\ \/ Failure500(req[r], BudgetMessage)
                 \/ TimeoutResponse(req[r]) /\ DeadlineElapsed(r)

(* The budget ran out before the deadline: 500.                            *)
C10_Witness ==
    \E r \in Slots :
        /\ BudgetSpent(r) /\ req[r].nPoll = Budget
        /\ Failure500(req[r], BudgetMessage)
        /\ ~DeadlineElapsed(r)

---------------------------------------------------------------------------
(* getTranscription of request r is still running: it awaits a call or its *)
(* back-off timer.                                                         *)
Running(r) == req[r].pc \in {"resolve", "submit", "poll", "sleep"}

(* C11: in the build with the deadline (api.js), a request whose resolve,  *)
(* submit and poll sequence is still running 55000 ms after it started has *)
(* the 504 response with success=false and the 'took too long' message; it *)
(* is without a response at that instant only while the deadline timer,    *)
(* due now, has yet to run.  No request is unanswered after its deadline.  *)
C11_DeadlineAnswers504 ==
    \A r \in Slots :
        /\ (variant = "api" /\ Running(r) /\ now >= req[r].recvAt + 55000)
           => \/ TimeoutResponse(req[r])
              \/ /\ ~Responded(r)
                 /\ now = req[r].recvAt + 55000
                 /\ req[r].deadline = now
        /\ (variant = "api" /\ req[r].ip # 0 /\ ~Responded(r))
           => now <= req[r].recvAt + 55000

(* The deadline answered a request whose status request is still pending.  *)
C11_Witness ==
    \E r \in Slots :
        /\ variant = "api" /\ req[r].pc = "poll"
        /\ TimeoutResponse(req[r])
        /\ now = req[r].recvAt + 55000
        /\ req[r].deadline = NoTimer

---------------------------------------------------------------------------
(* C12 (as claimed): once a request has its response, no timer of the      *)
(* request is pending: neither its deadline timer nor a back-off timer of  *)
(* its poll loop.                                                          *)
C12_NoDanglingTimer ==
    \A r \in Slots :
        Responded(r) => req[r].deadline = NoTimer /\ req[r].sleepDue = NoTimer

---------------------------------------------------------------------------
(* C13 (as claimed): a request that was answered with a failure has        *)
(* written no cache entry, before or after its response.                   *)
C13_FailureNeverCaches ==
    \A r \in Slots :
        (Responded(r) /\ req[r].resp.status # 200) => req[r].nWrite = 0

---------------------------------------------------------------------------
(* A response as the handler sends them: JSON with a boolean success and   *)
(* one of the five statuses.                                               *)
WellFormed(resp) ==
    /\ resp.status \in {200, 400, 429, 500, 504}
    /\ resp.success \in BOOLEAN
    /\ resp.success <=> resp.status = 200

---------------------------------------------------------------------------
(* getTranscription of request r threw, and the message of its error.      *)
Thrown(r) == req[r].settled # <<>> /\ Head(req[r].settled) = "throw"
ThrownMessage(r) == Tail(req[r].settled)

(* C15 (as claimed): a response is 504 only if the deadline of the request *)
(* was reached, and a request whose getTranscription threw before the      *)
(* deadline is answered 500 with the message of the error, whatever that   *)
(* message is.                                                             *)
C15_504IffDeadline ==
    \A r \in Slots :
        /\ req[r].resp.status = 504 => DeadlineElapsed(r)
        /\ (Thrown(r) /\ ~DeadlineElapsed(r))
           => Failure500(req[r], ThrownMessage(r))

---------------------------------------------------------------------------
(* Request slot r took, in this step, a request of ip that rateLimiter let *)
(* through.                                                                *)
Admitted(r, ip) == Arrives(r) /\ req'[r].ip = ip /\ req'[r].resp.status # 429

NonDecreasing(s) == \A i \in 1..(Len(s) - 1) : s[i] <= s[i + 1]

---------------------------------------------------------------------------
(* The status request of r is answered 'completed' in this step.           *)
Completes(r) ==
    /\ req[r].pc = "poll" /\ req'[r].pc = "ended"
    /\ req'[r].provText # None

(* Requests r and q ask for the same key and both found no fresh entry.    *)
SameKeyMisses(r, q) ==
    /\ r # q /\ req[r].url = req[q].url
    /\ req[r].lookup \in {"absent", "stale"}
    /\ req[q].lookup \in {"absent", "stale"}

(* C17: requests for the same key that are in flight together are not      *)
(* coalesced.  Each has made its own call to the resolver and, once it has *)
(* a source, its own submission; and each one, when its poll completes,    *)
(* writes the entry of the key with its own text and the time of its       *)
(* completion, over whatever another request wrote before: the entry is    *)
(* that of the request that completed last.                                *)
C17_NoCoalescing ==
    [][/\ \A r, q \in Slots :
             (SameKeyMisses(r, q) /\ Running(r) /\ Running(q))
             => /\ req[r].nResolve = 1
                /\ req[r].pc # "resolve" => req[r].nSubmit = 1
       /\ \A r \in Slots :
             Completes(r)
             => /\ cache'[req[r].url] =
                      [transcription |-> req'[r].provText, timestamp |-> now]
                /\ req'[r].nWrite = 1
                /\ req'[r].nResolve = 1 /\ req'[r].nSubmit = 1]_vars

(* Two requests for "u1" started together on an empty cache; both          *)
(* resolved, submitted and wrote; the entry holds the text and the later   *)
(* time of the one, not the text of the other.                             *)
C17_Witness ==
    \E r, q \in Slots :
        /\ SameKeyMisses(r, q) /\ req[r].recvAt = req[q].recvAt
        /\ req[r].lookup = "absent" /\ req[q].lookup = "absent"
        /\ req[r].nWrite = 1 /\ req[q].nWrite = 1
        /\ req[r].nResolve = 1 /\ req[q].nResolve = 1
        /\ req[r].nSubmit = 1 /\ req[q].nSubmit = 1
        /\ req[r].provText # req[q].provText
        /\ cache[req[r].url].transcription = req[r].provText
        /\ cache[req[r].url].timestamp > req[r].recvAt
        /\ req[q].resp.status = 200
        /\ req[q].resp.transcription = req[q].provText

---------------------------------------------------------------------------
(* C18 (as claimed): an entry is created only when a poll reports          *)
(* 'completed', and an entry that exists keeps its transcript and its      *)
(* timestamp until a stale read or the sweep deletes it.                   *)
C18_NeverUpdatedInPlace ==
    [][\A u \in CacheKeys :
          /\ (~has(u) /\ cache'[u] # NoEntry)
             => \E r \in Slots : Completes(r) /\ req[r].url = u
          /\ has(u) => cache'[u] \in {cache[u], NoEntry}]_vars

(* The entry of u is deleted in this step: by getTranscription of an       *)
(* arriving request that found it stale, or by the sweep.                  *)
StaleRead(u) ==
    \E r \in Slots :
        Arrives(r) /\ req'[r].url = u /\ req'[r].lookup = "stale"

Swept(u) == nextSweep' # nextSweep

(* C18 (amended): the entry of a key changes in three ways only.  It is    *)
(* written, transcript and timestamp together, when the poll of a request  *)
(* for the key that found no fresh entry reports 'completed': this creates *)
(* the entry or replaces the one that another request wrote meanwhile.  It *)
(* is deleted by a read that finds it 24 hours old or older, or by a sweep *)
(* that finds it older than 24 hours.  Nothing else creates or changes it. *)
C18_WrittenOnCompletionOnly ==
    [][\A u \in CacheKeys :
          cache'[u] # cache[u]
          => \/ \E r \in Slots :
                   /\ Completes(r) /\ req[r].url = u
                   /\ req[r].lookup \in {"absent", "stale"}
                   /\ cache'[u] = [transcription |-> req'[r].provText,
                                   timestamp |-> now]
             \/ /\ cache'[u] = NoEntry
                /\ \/ StaleRead(u) /\ now - cache[u].timestamp >= 24 * 60 * 60 * 1000
                   \/ Swept(u) /\ now - cache[u].timestamp > 24 * 60 * 60 * 1000]_vars

(* The entry that one request wrote was replaced by a request that started *)
(* at the same time and whose poll completed after the deadline had        *)
(* answered it.                                                            *)
C18_Witness ==
    \E r, q \in Slots :
        /\ SameKeyMisses(r, q) /\ req[r].recvAt = req[q].recvAt
        /\ req[q].nWrite = 1 /\ req[q].resp.status = 200
        /\ req[r].nWrite = 1 /\ req[r].resp.status = 504
        /\ req[r].provText # req[q].provText
        /\ cache[req[r].url] = [transcription |-> req[r].provText,
                                timestamp |-> req[r].recvAt + 55000]

---------------------------------------------------------------------------
(* The cap of the back-off of the build, as the claim gives it.            *)
Cap == IF variant = "api" THEN 3000 ELSE 5000

(* Request r starts a back-off sleep in this step, and how long it is.     *)
StartsSleep(r) == req'[r].nSleep = req[r].nSleep + 1 /\ ~Arrives(r)
SleepLength(r) == req'[r].sleepDue - now

(* C19 (as claimed): the sleeps of a poll loop are 1000, 1500 and 2250 ms  *)
(* and then the cap, 3000 ms in api.js and 5000 ms in the variant, for     *)
(* every later one.                                                        *)
C19_BackoffThenCap ==
    [][\A r \in Slots :
          StartsSleep(r)
          => SleepLength(r) =
                CASE req'[r].nSleep = 1 -> 1000
                  [] req'[r].nSleep = 2 -> 1500
                  [] req'[r].nSleep = 3 -> 2250
                  [] OTHER -> Cap]_vars

(* C19 (amended): the sleeps of a poll loop are 1000, 1500 and 2250 ms;    *)
(* the fourth is the cap in api.js (3000 ms) and 3375 ms in the variant,   *)
(* whose cap of 5000 ms is reached by the fifth; every later sleep is the  *)
(* cap.  A sleep is never shorter than the one before it and never longer  *)
(* than the cap.                                                           *)
C19_BackoffSequence ==
    [][\A r \in Slots :
          StartsSleep(r)
          => /\ SleepLength(r) =
                   CASE req'[r].nSleep = 1 -> 1000
                     [] req'[r].nSleep = 2 -> 1500
                     [] req'[r].nSleep = 3 -> 2250
                     [] req'[r].nSleep = 4 /\ variant = "server" -> 3375
                     [] OTHER -> Cap
             /\ SleepLength(r) <= Cap
             /\ req[r].nSleep >= 1 => SleepLength(r) >= req[r].waitTime
             /\ req'[r].waitTime = SleepLength(r)]_vars

(* The variant in its fifth sleep, the first one of 5000 ms, after sleeps  *)
(* of 1000, 1500, 2250 and 3375 ms and polls answered at once.             *)
C19_Witness ==
    \E r \in Slots :
        /\ variant = "server" /\ req[r].pc = "sleep"
        /\ req[r].nSleep = 5 /\ req[r].waitTime = 5000
        /\ now = req[r].recvAt + 8125
        /\ req[r].sleepDue = now + 5000

---------------------------------------------------------------------------
(* How getTranscription of request r ended at the provider: the submit     *)
(* answered with an error field, a poll reported 'error', a poll reported  *)
(* 'completed'.                                                            *)
SubmitRejected(r) ==
    Thrown(r) /\ Head(ThrownMessage(r)) = "Failed to start transcription: "
JobFailed(r) ==
    Thrown(r) /\ Head(ThrownMessage(r)) = "Transcription failed: "
JobCompleted(r) ==
    req[r].settled # <<>> /\ Head(req[r].settled) = "return" /\ req[r].nPoll >= 1

(* The reasons the provider gives in the model.                            *)
ProviderReasons ==
    {res.error : res \in SubmitResults \cup PollResults} \ {None}

(* getTranscription of request r has ended with no back-off timer pending  *)
(* and at most one submission made.                                        *)
NoMoreTraffic(r) ==
    /\ req[r].pc = "ended" /\ req[r].sleepDue = NoTimer
    /\ req[r].nSubmit <= 1

(* C20 (as claimed): a submission answered with an error field is followed *)
(* by no poll and no second submission, a poll that reports 'completed' or *)
(* 'error' is the last poll of its job, and in the two error cases the     *)
(* response is the 500 carrying the provider's reason.                     *)
C20_TerminalOutcomes500 ==
    \A r \in Slots :
        /\ SubmitRejected(r)
           => /\ NoMoreTraffic(r) /\ req[r].nPoll = 0
              /\ Failure500(req[r], ThrownMessage(r))
        /\ JobFailed(r)
           => /\ NoMoreTraffic(r)
              /\ Failure500(req[r], ThrownMessage(r))
        /\ JobCompleted(r) => NoMoreTraffic(r)

(* C20 (amended): a submission answered with an error field is followed by *)
(* no poll, no sleep and no second submission; a poll that reports         *)
(* 'completed' or 'error' is the last poll of its job (once getTranscription *)
(* has ended, its counts of submits and polls stay as they are); in the two *)
(* error cases the error thrown carries the provider's reason and the      *)
(* response is the 500 with that message, unless the 55 s deadline of the  *)
(* api build was reached first: the caller then already has the 504.       *)
C20_TerminalOutcomes ==
    [][\A r \in Slots :
          /\ SubmitRejected(r)'
             => /\ NoMoreTraffic(r)' /\ req'[r].nPoll = 0 /\ req'[r].nSleep = 0
                /\ ThrownMessage(r)'[2] \in ProviderReasons
                /\ \/ Failure500(req'[r], ThrownMessage(r)')
                   \/ TimeoutResponse(req'[r]) /\ DeadlineElapsed(r)'
          /\ JobFailed(r)'
             => /\ NoMoreTraffic(r)' /\ req'[r].nPoll >= 1
                /\ ThrownMessage(r)'[2] \in ProviderReasons
                /\ \/ Failure500(req'[r], ThrownMessage(r)')
                   \/ TimeoutResponse(req'[r]) /\ DeadlineElapsed(r)'
          /\ JobCompleted(r)' => NoMoreTraffic(r)'
          /\ (req[r].pc = "ended" /\ ~Arrives(r))
             => /\ req'[r].pc = "ended"
                /\ req'[r].nSubmit = req[r].nSubmit
                /\ req'[r].nPoll = req[r].nPoll
                /\ req'[r].nSleep = req[r].nSleep]_vars

(* A job that was polled twice without a terminal status and whose third   *)
(* poll reported 'error', answered with the 500 that carries the reason.   *)
C20_Witness ==
    \E r \in Slots :
        /\ JobFailed(r) /\ req[r].nPoll = 3 /\ req[r].nSleep = 2
        /\ Failure500(req[r], <<"Transcription failed: ", "failed">>)

---------------------------------------------------------------------------
(* The setInterval callback of the sweep runs in this step.                *)
SweepRuns == nextSweep' # nextSweep

(* The entry of u is older than 24 hours.                                  *)
OlderThanRetention(u) ==
    /\ cache[u].timestamp >= 0
    /\ now - cache[u].timestamp > 24 * 60 * 60 * 1000

(* getTranscription of request r has returned a transcript: the text of    *)
(* its own completed poll or, on a cache hit, of the entry it read.        *)
ReturnedTranscript(r) ==
    /\ Len(req[r].settled) = 2 /\ Head(req[r].settled) = "return"
    /\ req[r].settled[2] \in Texts
    /\ req[r].lookup # "fresh" => req[r].settled[2] = req[r].provText

(* C21: a run of the sweep removes exactly the entries older than 24 hours *)
(* and leaves every other entry, and every request in flight, as it was;   *)
(* and whatever sweeps run while a request stands at one of its awaits,    *)
(* the request does not throw: when all its calls succeed it ends by       *)
(* returning a transcript, and its 200 response carries that transcript.   *)
C21_SweepRemovesExpiredOnly ==
    [][/\ SweepRuns
          => /\ \A u \in CacheKeys :
                   cache'[u] = IF OlderThanRetention(u) THEN NoEntry ELSE cache[u]
             /\ req' = req
       /\ \A r \in Slots :
             /\ ~Thrown(r)'
             /\ req'[r].pc = "ended" => ReturnedTranscript(r)'
             /\ req'[r].resp.status = 200
                => req'[r].resp.transcription = req'[r].settled[2]]_vars

(* Two requests missed the same key at time 0 and one wrote the entry; the *)
(* sweep of the 25th hour has removed it while the other, which has not    *)
(* been answered in the server build, still awaits its first poll.         *)
C21_Witness ==
    \E r, q \in Slots :
        /\ SameKeyMisses(r, q)
        /\ req[q].nWrite = 1 /\ req[q].resp.status = 200
        /\ req[r].recvAt = 0 /\ req[r].pc = "poll" /\ req[r].nWrite = 0
        /\ variant = "server" => ~Responded(r)
        /\ now = 25 * SWEEP_INTERVAL /\ nextSweep = 26 * SWEEP_INTERVAL
        /\ ~has(req[r].url)

---------------------------------------------------------------------------
(* What a lookup of key u returns in this state: the transcript of its     *)
(* entry if the entry is younger than 24 hours, or nothing.                *)
ReadResult(u) == IF YoungEntry(u) THEN cache[u].transcription ELSE None

(* cache.set writes the entry of u in this step.                           *)
WrittenTo(u) == \E r \in Slots : Completes(r) /\ req[r].url = u

(* C22 (as claimed): with no cache write and no sweep between them, two    *)
(* consecutive lookups of a key return the same: no step other than a      *)
(* write to the key or a sweep changes what a lookup of the key returns.   *)
C22_IdempotentRead ==
    [][\A u \in CacheKeys :
          (~WrittenTo(u) /\ ~SweepRuns) => ReadResult(u)' = ReadResult(u)]_vars

(* C22 (amended): a lookup (the cache read of an admitted request with a   *)
(* url) returns the transcript of the entry if the entry is younger than   *)
(* 24 hours, and otherwise finds the key absent and leaves no entry.  With *)
(* no cache write and no sweep between them, two consecutive lookups of a  *)
(* key return the same unless the entry reaches the age of 24 hours        *)
(* between them: then the first returns the transcript and the second      *)
(* finds the key absent.                                                   *)
C22_ReadUntilExpiry ==
    [][/\ \A u \in CacheKeys :
             (~WrittenTo(u) /\ ~SweepRuns)
             => \/ ReadResult(u)' = ReadResult(u)
                \/ /\ ReadResult(u) # None /\ ReadResult(u)' = None
                   /\ now' > now /\ cache'[u] = cache[u]
                   /\ now' - cache[u].timestamp >= 24 * 60 * 60 * 1000
       /\ \A r \in Slots :
             (Arrives(r) /\ req'[r].lookup # "none")
             => /\ req'[r].lookup = "fresh"
                   => /\ ReadResult(req'[r].url) # None
                      /\ req'[r].resp.transcription = ReadResult(req'[r].url)
                /\ req'[r].lookup \in {"stale", "absent"}
                   => /\ ReadResult(req'[r].url) = None
                      /\ cache'[req'[r].url] = NoEntry]_vars

(* A request read the transcript of an entry written before it arrived; no *)
(* sweep has run and nothing was written since, the entry is still in the  *)
(* map, and it has reached 24 hours: a lookup now finds the key absent.    *)
C22_Witness ==
    \E r \in Slots :
        /\ req[r].lookup = "fresh" /\ req[r].resp.status = 200
        /\ has(req[r].url)
        /\ cache[req[r].url].timestamp < req[r].recvAt
        /\ req[r].resp.transcription = cache[req[r].url].transcription
        /\ nextSweep - SWEEP_INTERVAL <= req[r].recvAt /\ now < nextSweep
        /\ now > req[r].recvAt
        /\ ReadResult(req[r].url) = None

====
